---- MODULE Spec2Model ----
(***************************************************************************)
(* Model of the recipe-acquisition pipeline of pantry-vision               *)
(* (src/src/utils/recipe_scraper.py, class RecipeScraper).                 *)
(*                                                                         *)
(* One run of search_and_scrape_recipe is a state machine: the strategy    *)
(* loop (line 73), the candidate loop (line 80), the page fetch with its   *)
(* recursive search-results substitution (lines 224-265), the validation   *)
(* and append (lines 89-90) and the rate limiter (lines 771-777).          *)
(*                                                                         *)
(* Strings are modelled by what the code tests of them: a host is a        *)
(* sequence of labels, a URL carries the substring tests the code makes    *)
(* ('/search?' in url, '/recipe/' in href, href.endswith('/')), a recipe   *)
(* name is a sequence of words.  Time is counted in ticks, TicksPerUnit    *)
(* ticks to one time unit of time.time().                                  *)
(*                                                                         *)
(* A second specification, CallSpec, applies single functions to bounded   *)
(* sets of arguments: the name cleaning and the three search strategies,   *)
(* _parse_json_ld_recipe, _scrape_allrecipes, the extractor of each        *)
(* trusted domain, RecipeWebSearch.validate_url                            *)
(* (src/src/utils/web_search.py), and the constructor of RecipeAgent and   *)
(* its _parse_recipe_response (src/src/ai/recipe_agent.py).                *)
(*                                                                         *)
(* FairSpec is Spec with the step the run is at always taken: every        *)
(* network request returns and the interpreter goes on.                    *)
(***************************************************************************)
EXTENDS Integers, Sequences, FiniteSets, TLC

----------------------------------------------------------------------------
(* Bounds of the model *)

MaxResults == 2        \* largest max_results the caller passes
MaxDur == 1            \* longest duration of one network request, in ticks
MaxClock == 3          \* requests take time while the clock reads at most Epoch + MaxClock
TicksPerUnit == 1      \* clock resolution: ticks per time unit
RecursionLimit == 2    \* deepest nesting of _scrape_recipe_from_url the interpreter allows
MaxWords == 4          \* most words of a recipe name passed to a function on its own
MaxEntries == 3        \* most entries of a recipeIngredient or recipeInstructions list
MaxLines == 3          \* most lines of a response text
MaxCount == 2          \* largest expected_count
MaxBlocks == 3         \* most JSON-LD script blocks in a page

----------------------------------------------------------------------------
(* Program constants *)

\* self.min_delay = 1.0 (line 50), in ticks
min_delay == 1 * TicksPerUnit

\* time.time() of the first call: far more than min_delay after the epoch
Epoch == 2 * min_delay

\* self.trusted_domains (lines 28-39): the keys of the registry
trusted_domains ==
    { <<"allrecipes.com">>, <<"foodnetwork.com">>, <<"bbcgoodfood.com">>,
      <<"seriouseats.com">>, <<"bonappetit.com">>, <<"food.com">>,
      <<"tasteofhome.com">>, <<"eatingwell.com">>, <<"cookinglight.com">>,
      <<"epicurious.com">> }

\* words_to_remove (line 178)
words_to_remove ==
    { "recipe", "ultimate", "best", "perfect", "easy", "quick", "simple" }

----------------------------------------------------------------------------
(* Sequences *)

\* Python's seq[:n] for n >= 0
Take(s, n) == SubSeq(s, 1, IF n < Len(s) THEN n ELSE Len(s))

\* the value of an Optional that is None (<<>>) or holds v (<<v>>)
None == <<>>
Some(v) == <<v>>

----------------------------------------------------------------------------
(* Hosts and URLs *)

\* str.lower() on the labels and words the model uses
Lower(w) ==
    CASE w = "WWW." -> "www."
      [] w = "FoodNetwork.com" -> "foodnetwork.com"
      [] w = "Ultimate" -> "ultimate"
      [] w = "Chicken" -> "chicken"
      [] w = "Curry" -> "curry"
      [] OTHER -> w

\* _extract_domain, all 'www.' prefixes stripped instead of the leading one
ExtractDomainStripAll(url) ==
    LET d == [i \in 1..Len(url.host) |-> Lower(url.host[i])]
    IN  SelectSeq(d, LAMBDA l : l # "www.")

\* _extract_domain (lines 754-764): netloc lower-cased, one leading 'www.' removed
ExtractDomain(url) ==
    LET d == [i \in 1..Len(url.host) |-> Lower(url.host[i])]
    IN  IF Len(d) > 0 /\ d[1] = "www." THEN Tail(d) ELSE d

\* an absolute URL: its netloc and what the code tests of the rest
Url(host, search, recipe, slash, slug) ==
    [host |-> host, search |-> search, recipe |-> recipe, slash |-> slash,
     slug |-> slug]

\* "https://www.allrecipes.com", the host the scraper builds its own URLs on
AllrecipesHost == <<"www.", "allrecipes.com">>

----------------------------------------------------------------------------
(* Exceptions *)

\* the exception classes the model raises; KeyboardInterrupt derives from
\* BaseException only, every other one from Exception
ExceptionClasses ==
    { "Timeout", "ConnectionError", "HTTPError", "JSONDecodeError",
      "AttributeError", "TypeError", "RecursionError" }

\* an 'except' clause that names requests' own exceptions only
CatchesRequestException(e) == e \in {"Timeout", "ConnectionError"}

\* 'except Exception as e' (lines 92, 99, 105, 219, 263)
Catches(e) == e \in ExceptionClasses

\* a call's outcome: the exception it raised ("none" if it returned) and its value
Returned(v) == [exc |-> "none", value |-> v]
Raised(e) == [exc |-> e, value |-> None]

----------------------------------------------------------------------------
(* Recipe names and the search strategies *)

\* a recipe name that is a str, as its words; and a caller's None
Name(words) == [str |-> TRUE, words |-> words]
NotAStr == [str |-> FALSE, words |-> <<>>]

\* the words that re.sub(r'^\d+\.\s*', '', ...) removes when they lead the name
IsOrdinal(w) == w \in {"1.", "2."}

\* _clean_recipe_name with the words compared as they are written
CleanRecipeNameCaseSensitive(words) ==
    LET cleaned == IF Len(words) > 0 /\ IsOrdinal(words[1]) THEN Tail(words) ELSE words
    IN  SelectSeq(cleaned, LAMBDA w : w \notin words_to_remove)

\* _clean_recipe_name that removes the first stop word it meets only
CleanRecipeNameFirstStopWord(words) ==
    LET cleaned == IF Len(words) > 0 /\ IsOrdinal(words[1]) THEN Tail(words) ELSE words
        stops == { i \in 1..Len(cleaned) : Lower(cleaned[i]) \in words_to_remove }
    IN  IF stops = {} THEN cleaned
        ELSE LET first == CHOOSE i \in stops : \A j \in stops : i <= j
             IN  SubSeq(cleaned, 1, first - 1) \o SubSeq(cleaned, first + 1, Len(cleaned))

\* _clean_recipe_name (lines 169-182) on the words of a str
CleanRecipeName(words) ==
    LET cleaned == IF Len(words) > 0 /\ IsOrdinal(words[1]) THEN Tail(words) ELSE words
    IN  SelectSeq(cleaned, LAMBDA w : Lower(w) \notin words_to_remove)

\* ' '.join(words) with every ' ' replaced by sep; sep = "" leaves no separator
RECURSIVE JoinWords(_, _)
JoinWords(words, sep) ==
    IF Len(words) = 0 THEN <<>>
    ELSE IF Len(words) = 1 THEN <<words[1]>>
    ELSE IF sep = "" THEN <<words[1]>> \o JoinWords(Tail(words), sep)
    ELSE <<words[1], sep>> \o JoinWords(Tail(words), sep)

\* clean_name.lower()
LowerWords(words) == [i \in 1..Len(words) |-> Lower(words[i])]

\* search_query = f"{clean_name} recipe" (lines 188-189), as its words
SearchQuery(words) == CleanRecipeName(words) \o <<"recipe">>

\* the trusted URLs of a list, in order (lines 211-215)
TrustedUrls(urls) == SelectSeq(urls, LAMBDA u : ExtractDomain(u) \in trusted_domains)

\* the exception _search_recipe_urls meets inside its try block, "none" if none
SearchException(recipe_name, resp) ==
    IF ~recipe_name.str THEN "AttributeError"
    ELSE IF resp.kind = "exc" THEN resp.exc
    ELSE IF resp.status # 200 THEN "none"
    ELSE IF resp.json = "invalid" THEN "JSONDecodeError"
    ELSE IF resp.json = "not_dict" THEN "AttributeError"
    ELSE IF ~resp.topics_ok THEN "TypeError"
    ELSE "none"

\* the URLs of a well-formed response: AbstractURL, then each topic's FirstURL
ResponseUrls(resp) ==
    LET withUrl == SelectSeq(resp.topics, LAMBDA t : Len(t) > 0)
    IN  resp.abstract \o [i \in 1..Len(withUrl) |-> withUrl[i][1]]

\* _search_recipe_urls that returns the URLs read before the exception
SearchRecipeUrlsKeepPartial(recipe_name, n, resp) ==
    LET exc == SearchException(recipe_name, resp)
    IN  IF exc = "TypeError" THEN Returned(Take(TrustedUrls(resp.abstract), n))
        ELSE IF exc # "none"
        THEN IF Catches(exc) THEN Returned(<<>>) ELSE Raised(exc)
        ELSE IF resp.status # 200 THEN Returned(<<>>)
        ELSE Returned(Take(TrustedUrls(ResponseUrls(resp)), n))

\* _search_recipe_urls (lines 184-222) given the API's response
SearchRecipeUrls(recipe_name, n, resp) ==
    LET exc == SearchException(recipe_name, resp)
    IN  IF exc # "none"
        THEN IF Catches(exc) THEN Returned(<<>>) ELSE Raised(exc)
        ELSE IF resp.status # 200 THEN Returned(<<>>)
        ELSE Returned(Take(TrustedUrls(ResponseUrls(resp)), n))

\* _search_with_duckduckgo (lines 109-111)
SearchWithDuckduckgo(recipe_name, n, resp) == SearchRecipeUrls(recipe_name, n, resp)

\* _search_with_direct_urls (lines 113-123)
SearchWithDirectUrls(recipe_name, n) ==
    IF ~recipe_name.str THEN Raised("AttributeError")
    ELSE LET clean_name == CleanRecipeName(recipe_name.words)
             search_query == JoinWords(clean_name, "+")
         IN  Returned(Take(<<Url(AllrecipesHost, TRUE, FALSE, FALSE, search_query)>>, n))

\* _search_with_allrecipes_direct (lines 150-167)
SearchWithAllrecipesDirect(recipe_name, n) ==
    IF ~recipe_name.str THEN Raised("AttributeError")
    ELSE LET clean_name == CleanRecipeName(recipe_name.words)
             recipe_patterns == << JoinWords(LowerWords(clean_name), "-"),
                                   JoinWords(LowerWords(clean_name), ""),
                                   JoinWords(LowerWords(clean_name), "_") >>
             urls == [i \in 1..3 |->
                        Url(AllrecipesHost, FALSE, TRUE, TRUE, recipe_patterns[i])]
         IN  Returned(Take(urls, n))

----------------------------------------------------------------------------
(* Pages and the extractors *)

\* a recipe dict as an extractor returns it
RecipeDict(name, description, ingredients, instructions) ==
    [name |-> name, description |-> description, ingredients |-> ingredients,
     instructions |-> instructions, nutrition |-> None,
     source_url |-> None, scraped_from |-> None]

\* recipe_data['source_url'] = url; recipe_data['scraped_from'] = domain (lines 258-259)
WithSource(recipe, url, domain) ==
    [recipe EXCEPT !.source_url = Some(url), !.scraped_from = Some(domain)]

\* _validate_recipe_data that asks for a name only
ValidateNameOnly(recipe) == recipe.name # ""

\* _validate_recipe_data (lines 766-769)
ValidateRecipeData(recipe) ==
    /\ recipe.name # ""
    /\ recipe.ingredients # <<>>
    /\ recipe.instructions # <<>>

\* _is_recipe_type (lines 746-752)
IsRecipeType(type_value) ==
    IF type_value.form = "str" THEN type_value.vals = <<"Recipe">>
    ELSE IF type_value.form = "list"
    THEN \E i \in 1..Len(type_value.vals) : type_value.vals[i] = "Recipe"
    ELSE FALSE

\* the texts of the entries that are str (lines 696-701)
LdIngredients(entries) ==
    LET strs == SelectSeq(entries, LAMBDA e : e.form = "str")
    IN  [i \in 1..Len(strs) |-> strs[i].text]

\* the loop of lines 704-715 that takes the text of dict entries only
LdInstructionsDictOnly(entries) ==
    LET kept == SelectSeq(entries, LAMBDA e : e.form = "dict" /\ e.text # "")
    IN  [i \in 1..Len(kept) |-> kept[i].text]

\* the non-empty text of each str entry or dict entry (lines 704-715)
LdInstructions(entries) ==
    LET kept == SelectSeq(entries, LAMBDA e : e.form \in {"str", "dict"} /\ e.text # "")
    IN  [i \in 1..Len(kept) |-> kept[i].text]

\* the sub-fields of 'nutrition' that are read, in the order of lines 733-740
NutritionKeys == <<"calories", "proteinContent", "carbohydrateContent", "fatContent">>

\* the label written for each sub-field (lines 734, 736, 738, 740)
NutritionLabel(key) ==
    CASE key = "calories" -> "Calories: "
      [] key = "proteinContent" -> "Protein: "
      [] key = "carbohydrateContent" -> "Carbs: "
      [] key = "fatContent" -> "Fat: "

\* ", ".join(parts): the pieces of the joined string, one after the other
RECURSIVE JoinParts(_)
JoinParts(parts) ==
    IF parts = <<>> THEN <<>>
    ELSE IF Len(parts) = 1 THEN parts[1]
    ELSE parts[1] \o <<", ">> \o JoinParts(Tail(parts))

\* the loop of lines 733-742 with a part for every sub-field, absent ones included
NutritionEveryKey(nutrition) ==
    LET parts == [i \in 1..Len(NutritionKeys) |->
                    <<NutritionLabel(NutritionKeys[i]),
                      IF NutritionKeys[i] \in DOMAIN nutrition[1].fields
                      THEN nutrition[1].fields[NutritionKeys[i]] ELSE "None">>]
    IN  IF nutrition = None THEN None ELSE Some(JoinParts(parts))

\* recipe['nutrition'] for a 'nutrition' that is a dict, None if it is not set
\* (lines 730-742)
Nutrition(nutrition) ==
    LET present == SelectSeq(NutritionKeys, LAMBDA k : k \in DOMAIN nutrition[1].fields)
        parts == [i \in 1..Len(present) |->
                    <<NutritionLabel(present[i]), nutrition[1].fields[present[i]]>>]
    IN  IF nutrition = None \/ parts = <<>> THEN None ELSE Some(JoinParts(parts))

\* does _parse_json_ld_recipe raise: 'calories' in nutrition (line 733) raises
\* TypeError when 'nutrition' is a number or null
ParseJsonLdRaises(data) == data.nutrition # None /\ data.nutrition[1].form # "dict"

\* _parse_json_ld_recipe (lines 688-744) when it returns: name, description,
\* ingredients, instructions, nutrition
ParseJsonLdRecipe(data) ==
    [RecipeDict(data.name, Some(data.description),
                LdIngredients(data.recipeIngredient),
                LdInstructions(data.recipeInstructions))
     EXCEPT !.nutrition = Nutrition(data.nutrition)]

\* is this parsed value a dict typed Recipe (lines 278, 280)
IsRecipeDict(data) == data.json = "dict" /\ IsRecipeType(data.type)

\* the loop of lines 272-284 with the try around the whole loop: the first
\* block that fails ends the scan
RECURSIVE FirstJsonLdAbortOnError(_)
FirstJsonLdAbortOnError(json_ld_scripts) ==
    IF json_ld_scripts = <<>> THEN None
    ELSE LET data == Head(json_ld_scripts)
             recipeItems == IF data.json = "list"
                            THEN SelectSeq(data.items, IsRecipeDict) ELSE <<>>
             item == IF recipeItems # <<>> THEN recipeItems[1] ELSE data
         IN  IF data.json = "invalid" THEN None
             ELSE IF recipeItems = <<>> /\ ~IsRecipeDict(data)
             THEN FirstJsonLdAbortOnError(Tail(json_ld_scripts))
             ELSE IF ParseJsonLdRaises(item) THEN None
             ELSE Some(ParseJsonLdRecipe(item))

\* the first script block that makes the loop of lines 272-284 return, None if none does
RECURSIVE FirstJsonLd(_)
FirstJsonLd(json_ld_scripts) ==
    IF json_ld_scripts = <<>> THEN None
    ELSE LET data == Head(json_ld_scripts)
             recipeItems == IF data.json = "list"
                            THEN SelectSeq(data.items, IsRecipeDict) ELSE <<>>
             item == IF recipeItems # <<>> THEN recipeItems[1] ELSE data
         IN  IF data.json = "invalid" THEN FirstJsonLd(Tail(json_ld_scripts))
             ELSE IF recipeItems = <<>> /\ ~IsRecipeDict(data)
             THEN FirstJsonLd(Tail(json_ld_scripts))
             ELSE IF ParseJsonLdRaises(item) THEN FirstJsonLd(Tail(json_ld_scripts))
             ELSE Some(ParseJsonLdRecipe(item))

\* the stripped, non-empty texts of the matched elements (lines 305-308)
ElementTexts(texts) == SelectSeq(texts, LAMBDA t : t # "")

\* an HTML extractor that gives up when it finds no description element
HtmlRequiresDescription(html) ==
    IF html.name = None \/ html.name = Some("") \/ html.description = None THEN None
    ELSE Some(RecipeDict(html.name[1], html.description,
                         ElementTexts(html.ingredients),
                         ElementTexts(html.instructions)))

\* an HTML extractor that looks for a description element (lines 286-339, 348-389, 398-430)
HtmlWithDescription(html) ==
    IF html.name = None \/ html.name = Some("") THEN None
    ELSE Some(RecipeDict(html.name[1], html.description,
                         ElementTexts(html.ingredients),
                         ElementTexts(html.instructions)))

\* an HTML extractor that looks for no description element (lines 439-466)
HtmlWithoutDescription(html) ==
    IF html.name = None \/ html.name = Some("") THEN None
    ELSE Some(RecipeDict(html.name[1], None,
                         ElementTexts(html.ingredients),
                         ElementTexts(html.instructions)))

\* _scrape_allrecipes (lines 267-343): JSON-LD first, else the page's HTML
ScrapeAllrecipes(soup) ==
    IF FirstJsonLd(soup.ld) # None THEN FirstJsonLd(soup.ld)
    ELSE HtmlWithDescription(soup.html)

\* _scrape_foodnetwork (lines 345-393)
ScrapeFoodnetwork(soup) == HtmlWithDescription(soup.html)

\* _scrape_bbcgoodfood (lines 395-434)
ScrapeBbcgoodfood(soup) == HtmlWithDescription(soup.html)

\* _scrape_seriouseats (lines 436-470)
ScrapeSeriouseats(soup) == HtmlWithoutDescription(soup.html)

\* _scrape_bonappetit, _scrape_food_com, _scrape_tasteofhome, _scrape_eatingwell,
\* _scrape_cookinglight, _scrape_epicurious (lines 472-686): the same lookups
ScrapeRecipeTitlePage(soup) == HtmlWithoutDescription(soup.html)

\* scraper_func = self.trusted_domains[domain]; scraper_func(soup, url) (lines 254-255)
ScraperFunc(domain, soup) ==
    CASE domain = <<"allrecipes.com">> -> ScrapeAllrecipes(soup)
      [] domain = <<"foodnetwork.com">> -> ScrapeFoodnetwork(soup)
      [] domain = <<"bbcgoodfood.com">> -> ScrapeBbcgoodfood(soup)
      [] domain = <<"seriouseats.com">> -> ScrapeSeriouseats(soup)
      [] OTHER -> ScrapeRecipeTitlePage(soup)

\* an href of an <a> element: how it starts ("/" , "http" or otherwise) and
\* what the code tests of it
Href(form, host, search, recipe, slash, slug) ==
    [form |-> form, host |-> host, search |-> search, recipe |-> recipe,
     slash |-> slash, slug |-> slug]

\* the URL an accepted href stands for (lines 137-140)
HrefUrl(href) ==
    Url(IF href.form = "rel" THEN AllrecipesHost ELSE href.host,
        href.search, href.recipe, href.slash, href.slug)

\* the loop of lines 132-146 over the links, urls being the list built so far
RECURSIVE RecipeLinks(_, _)
RecipeLinks(links, urls) ==
    IF links = <<>> THEN urls
    ELSE LET href == Head(links)
             seen == href.form = "abs" /\ \E i \in 1..Len(urls) : urls[i] = HrefUrl(href)
         IN  IF href.recipe /\ ~seen /\ href.form \in {"rel", "abs"} /\ href.slash
             THEN RecipeLinks(Tail(links), Append(urls, HrefUrl(href)))
             ELSE RecipeLinks(Tail(links), urls)

\* _parse_allrecipes_search_results (lines 125-148)
ParseAllrecipesSearchResults(soup) == Take(RecipeLinks(soup.links, <<>>), 5)

----------------------------------------------------------------------------
(* The inputs of a run: what the caller passes and what the network answers *)

\* the recipe names the caller passes
Names ==
    { Name(<<"curry">>),
      Name(<<"1.", "Ultimate", "Chicken", "Curry">>),
      Name(<<"best">>),
      NotAStr }

\* the max_results the caller passes
Quotas == (0 - 1)..MaxResults

\* how long one network request takes, in ticks
Durations == 0..MaxDur

\* the durations of a request issued when the clock reads t: past
\* Epoch + MaxClock every request is answered at once
DurationsAt(t) == { d \in Durations : d = 0 \/ t + d <= Epoch + MaxClock }

\* URLs the instant-answer API names
UrlFoodnetwork == Url(<<"WWW.", "FoodNetwork.com">>, FALSE, TRUE, TRUE, <<"fn">>)
UrlSeriouseats == Url(<<"seriouseats.com">>, FALSE, FALSE, FALSE, <<"se">>)
UrlAllrecipesSearch == Url(<<"allrecipes.com">>, TRUE, FALSE, FALSE, <<"q">>)
UrlEvil == Url(<<"evil.com">>, FALSE, TRUE, TRUE, <<"x">>)
UrlDoubleWww == Url(<<"www.", "www.", "allrecipes.com">>, FALSE, TRUE, TRUE, <<"x">>)
UrlSuffix == Url(<<"allrecipes.com", ".evil.com">>, FALSE, TRUE, TRUE, <<"x">>)

\* a response of the instant-answer API, or the exception requests.get raised
ApiError(e) ==
    [kind |-> "exc", exc |-> e, status |-> 0, json |-> "invalid",
     abstract |-> <<>>, topics_ok |-> FALSE, topics |-> <<>>]
ApiResponse(status, json, abstract, topics_ok, topics) ==
    [kind |-> "response", exc |-> "none", status |-> status, json |-> json,
     abstract |-> abstract, topics_ok |-> topics_ok, topics |-> topics]

ApiResponses ==
    { ApiError("Timeout"),
      ApiResponse(500, "dict", <<>>, TRUE, <<>>),
      ApiResponse(200, "invalid", <<>>, TRUE, <<>>),
      ApiResponse(200, "not_dict", <<>>, TRUE, <<>>),
      ApiResponse(200, "dict", <<UrlFoodnetwork>>, FALSE, <<>>),
      ApiResponse(200, "dict", <<UrlFoodnetwork>>, TRUE,
                  << <<UrlEvil>>, <<>>, <<UrlSeriouseats>>, <<UrlAllrecipesSearch>> >>),
      ApiResponse(200, "dict", <<UrlEvil>>, TRUE, << <<UrlDoubleWww>>, <<UrlSuffix>> >>) }

\* JSON-LD script blocks
StrEntry(text) == [form |-> "str", text |-> text]
DictEntry(text) == [form |-> "dict", text |-> text]
OtherEntry == [form |-> "other", text |-> ""]
TypeStr(v) == [form |-> "str", vals |-> <<v>>]
TypeList(vs) == [form |-> "list", vals |-> vs]
LdInvalid ==
    [json |-> "invalid", type |-> TypeStr(""), name |-> "", description |-> "",
     recipeIngredient |-> <<>>, recipeInstructions |-> <<>>, items |-> <<>>,
     nutrition |-> None]
LdDict(type, name, recipeIngredient, recipeInstructions) ==
    [json |-> "dict", type |-> type, name |-> name, description |-> "",
     recipeIngredient |-> recipeIngredient,
     recipeInstructions |-> recipeInstructions, items |-> <<>>,
     nutrition |-> None]
LdList(items) ==
    [json |-> "list", type |-> TypeStr(""), name |-> "", description |-> "",
     recipeIngredient |-> <<>>, recipeInstructions |-> <<>>, items |-> items,
     nutrition |-> None]

\* a 'nutrition' value: a dict with some sub-fields, or a number
NutritionDict(fields) == [form |-> "dict", fields |-> fields]
NutritionNumber == [form |-> "int", fields |-> <<>>]

LdOrganization == LdDict(TypeStr("Organization"), "Site", <<>>, <<>>)
LdRecipe ==
    LdDict(TypeList(<<"Thing", "Recipe">>), "LD name",
           <<StrEntry("2 cups rice"), StrEntry("1 onion")>>,
           <<DictEntry("Boil rice"), StrEntry("Dice onion"), OtherEntry>>)
LdRecipeNoName ==
    LdDict(TypeStr("Recipe"), "", <<StrEntry("2 cups rice")>>, <<StrEntry("Boil rice")>>)

\* what a domain's selectors match in a page
Html(name, description, ingredients, instructions) ==
    [name |-> name, description |-> description, ingredients |-> ingredients,
     instructions |-> instructions]
HtmlNothing == Html(None, None, <<>>, <<>>)
HtmlRecipe == Html(Some("HTML name"), None, <<"rice", "">>, <<"boil">>)
HtmlNameOnly == Html(Some("HTML name"), Some("summary"), <<>>, <<>>)

Page(ld, html, links) == [ld |-> ld, html |-> html, links |-> links]

HrefRecipe == Href("rel", <<>>, FALSE, TRUE, TRUE, <<"found">>)
HrefNoSlash == Href("rel", <<>>, FALSE, TRUE, FALSE, <<"found">>)
HrefMailto == Href("other", <<>>, FALSE, TRUE, TRUE, <<"m">>)
HrefEvil == Href("abs", <<"evil.com">>, FALSE, TRUE, TRUE, <<"x">>)
HrefSearch == Href("rel", <<>>, TRUE, TRUE, TRUE, <<"again">>)

\* the bodies a GET may return
Pages ==
    { Page(<<>>, HtmlNothing, <<>>),
      Page(<<>>, HtmlRecipe, <<>>),
      Page(<<>>, HtmlNameOnly, <<>>),
      Page(<<LdInvalid, LdOrganization, LdList(<<LdOrganization, LdRecipe>>)>>,
           HtmlRecipe, <<>>),
      Page(<<LdRecipeNoName, LdRecipe>>, HtmlRecipe, <<>>),
      Page(<<>>, HtmlNothing, <<HrefMailto, HrefNoSlash, HrefRecipe, HrefEvil>>),
      Page(<<>>, HtmlNothing, <<HrefEvil, HrefRecipe>>),
      Page(<<>>, HtmlNothing, <<HrefSearch>>) }

\* the outcome of requests.get(url) followed by raise_for_status (lines 235-236)
FetchError(e) == [exc |-> e, page |-> Page(<<>>, HtmlNothing, <<>>)]
FetchOk(page) == [exc |-> "none", page |-> page]
FetchOutcomes ==
    { FetchError(e) : e \in {"Timeout", "ConnectionError", "HTTPError", "KeyboardInterrupt"} }
    \cup { FetchOk(p) : p \in Pages }

----------------------------------------------------------------------------
(* State *)

VARIABLES
    pc,                 \* where the run stands: "strategy" (line 73), "candidate"
                        \* (line 80), "fetch" (line 235), "validate" (line 89),
                        \* "rate_limit" (line 97), "done" (returned or raised)
    recipe_name,        \* argument of search_and_scrape_recipe
    max_results,        \* argument of search_and_scrape_recipe
    recipes,            \* the list being accumulated (line 64)
    strategy,           \* index into search_strategies of the loop of line 73
    recipe_urls,        \* the candidates of the current strategy (line 78)
    next_url,           \* index into recipe_urls of the loop of line 80
    url,                \* argument of the innermost _scrape_recipe_from_url, if any
    domain,             \* domain of the current candidate (line 85)
    depth,              \* number of nested calls of _scrape_recipe_from_url below the first
    soup,               \* the body parsed by the last GET that succeeded, if any
    recipe_data,        \* what _scrape_recipe_from_url returned (line 88)
    now,                \* time.time()
    last_request_time,  \* self.last_request_time
    result,             \* what the run returned or raised
    api_urls,           \* the URLs the instant-answer API named in this run
    invoked,            \* the strategies called so far
    failed,             \* the strategies that raised or met a failed or malformed response
    last_issue,         \* when the previous page GET was issued, if any
    fetch_outcomes,     \* how the page GETs issued so far ended: "2xx", "error"
    search_query,       \* the query of the last request to the instant-answer API, if any
    origins,            \* for each record of recipes, the strategy and the index in its
                        \* candidate list of the candidate that gave it
    fetched,            \* the candidate URLs a page GET was issued for so far
    args,               \* the arguments of a function applied on its own
    ret                 \* what that function returned

vars ==
    << pc, recipe_name, max_results, recipes, strategy, recipe_urls, next_url,
       url, domain, depth, soup, recipe_data, now, last_request_time, result,
       api_urls, invoked, failed, last_issue, fetch_outcomes, search_query,
       origins, fetched, args, ret >>

\* RecipeScraper() followed by the entry of search_and_scrape_recipe (lines 26-71)
Init ==
    /\ pc = "strategy"
    /\ recipe_name \in Names
    /\ max_results \in Quotas
    /\ recipes = <<>>
    /\ strategy = 1
    /\ recipe_urls = <<>>
    /\ next_url = 1
    /\ url = None
    /\ domain = <<>>
    /\ depth = 0
    /\ soup = None
    /\ recipe_data = None
    /\ now = Epoch
    /\ last_request_time = 0
    /\ result = [kind |-> "running", exc |-> "none", value |-> <<>>]
    /\ api_urls = <<>>
    /\ invoked = {}
    /\ failed = {}
    /\ last_issue = None
    /\ fetch_outcomes = {}
    /\ search_query = None
    /\ origins = <<>>
    /\ fetched = {}
    /\ args = None
    /\ ret = None

\* the quota test with > for >=
QuotaMetOffByOne(rs, quota) == Len(rs) > quota

\* len(recipes) >= max_results (lines 74, 81)
QuotaMet(rs, quota) == Len(rs) >= quota

\* the run ends: the value returned, or the exception that left the function
Return(value) == [kind |-> "return", exc |-> "none", value |-> value]
Raise(e) == [kind |-> "raise", exc |-> e, value |-> <<>>]

\* an exception e leaves the strategy call or the candidate loop (lines 99-107)
StrategyHandlers(e) ==
    IF Catches(e)
    THEN /\ pc' = "strategy"
         /\ strategy' = strategy + 1
         /\ result' = result
    ELSE /\ pc' = "done"
         /\ strategy' = strategy
         /\ result' = IF Catches(e) THEN Return(<<>>) ELSE Raise(e)

\* recipe_urls = strategy(recipe_name, max_results * 2) returned or raised (lines 78, 99)
AfterStrategy(outcome, broken) ==
    /\ invoked' = invoked \cup {strategy}
    /\ failed' = IF broken \/ outcome.exc # "none" THEN failed \cup {strategy} ELSE failed
    /\ recipe_urls' = outcome.value
    /\ next_url' = 1
    /\ IF outcome.exc = "none"
       THEN /\ pc' = "candidate"
            /\ UNCHANGED <<strategy, result>>
       ELSE StrategyHandlers(outcome.exc)
    /\ UNCHANGED <<recipe_name, max_results, recipes, url, domain, depth, soup,
                   recipe_data, last_request_time, last_issue, fetch_outcomes,
                   origins, fetched, args, ret>>

\* line 78 with strategy = _search_with_duckduckgo, without the test of line 74
SearchDuckduckgoUntested ==
    /\ pc = "strategy" /\ strategy = 1
    /\ \E resp \in ApiResponses, d \in DurationsAt(now) :
          /\ now' = now + d
          /\ search_query' = IF recipe_name.str
                             THEN Some(SearchQuery(recipe_name.words)) ELSE search_query
          /\ api_urls' = IF SearchException(recipe_name, resp) = "none" /\ resp.status = 200
                         THEN ResponseUrls(resp) ELSE <<>>
          /\ AfterStrategy(SearchWithDuckduckgo(recipe_name, max_results * 2, resp),
                           SearchException(recipe_name, resp) # "none" \/ resp.status # 200)

\* line 73-78 with strategy = _search_with_duckduckgo
SearchDuckduckgo ==
    /\ pc = "strategy" /\ strategy = 1
    /\ ~QuotaMet(recipes, max_results)
    /\ \E resp \in ApiResponses, d \in DurationsAt(now) :
          /\ now' = now + d
          /\ search_query' = IF recipe_name.str
                             THEN Some(SearchQuery(recipe_name.words)) ELSE search_query
          /\ api_urls' = IF SearchException(recipe_name, resp) = "none" /\ resp.status = 200
                         THEN ResponseUrls(resp) ELSE <<>>
          /\ AfterStrategy(SearchWithDuckduckgo(recipe_name, max_results * 2, resp),
                           SearchException(recipe_name, resp) # "none" \/ resp.status # 200)

\* line 73-78 with strategy = _search_with_direct_urls
SearchDirectUrls ==
    /\ pc = "strategy" /\ strategy = 2
    /\ ~QuotaMet(recipes, max_results)
    /\ AfterStrategy(SearchWithDirectUrls(recipe_name, max_results * 2), FALSE)
    /\ UNCHANGED <<now, api_urls, search_query>>

\* line 73-78 with strategy = _search_with_allrecipes_direct
SearchAllrecipesDirect ==
    /\ pc = "strategy" /\ strategy = 3
    /\ ~QuotaMet(recipes, max_results)
    /\ AfterStrategy(SearchWithAllrecipesDirect(recipe_name, max_results * 2), FALSE)
    /\ UNCHANGED <<now, api_urls, search_query>>

\* the loop of line 73 ends (no strategy left, or the break of line 75): return recipes
ReturnRecipes ==
    /\ pc = "strategy"
    /\ strategy > 3 \/ QuotaMet(recipes, max_results)
    /\ pc' = "done"
    /\ result' = Return(recipes)
    /\ UNCHANGED <<recipe_name, max_results, recipes, strategy, recipe_urls, next_url,
                   url, domain, depth, soup, recipe_data, now, last_request_time,
                   api_urls, invoked, failed, last_issue, fetch_outcomes,
                   search_query, origins, fetched, args, ret>>

\* the end of the loop of line 80 with a strategy that gave no candidate tried again
EndCandidatesRetryEmpty ==
    /\ pc = "candidate"
    /\ next_url > Len(recipe_urls) \/ QuotaMet(recipes, max_results)
    /\ pc' = "strategy"
    /\ strategy' = IF recipe_urls = <<>> THEN strategy ELSE strategy + 1
    /\ UNCHANGED <<recipe_name, max_results, recipes, recipe_urls, next_url,
                   url, domain, depth, soup, recipe_data, now, last_request_time,
                   result, api_urls, invoked, failed, last_issue, fetch_outcomes,
                   search_query, origins, fetched, args, ret>>

\* the loop of line 80 ends (no candidate left, or the break of line 82)
EndCandidates ==
    /\ pc = "candidate"
    /\ next_url > Len(recipe_urls) \/ QuotaMet(recipes, max_results)
    /\ pc' = "strategy"
    /\ strategy' = strategy + 1
    /\ UNCHANGED <<recipe_name, max_results, recipes, recipe_urls, next_url,
                   url, domain, depth, soup, recipe_data, now, last_request_time,
                   result, api_urls, invoked, failed, last_issue, fetch_outcomes,
                   search_query, origins, fetched, args, ret>>

\* lines 80-88 with the quota test of line 81 left out for the direct URL guesses
NextCandidateNoQuotaForGuesses ==
    /\ pc = "candidate"
    /\ next_url <= Len(recipe_urls)
    /\ strategy = 3 \/ ~QuotaMet(recipes, max_results)
    /\ domain' = ExtractDomain(recipe_urls[next_url])
    /\ depth' = 0
    /\ soup' = None
    /\ recipe_data' = None
    /\ IF ExtractDomain(recipe_urls[next_url]) \in trusted_domains
       THEN /\ pc' = "fetch"
            /\ url' = Some(recipe_urls[next_url])
       ELSE /\ pc' = "rate_limit"
            /\ url' = None
    /\ UNCHANGED <<recipe_name, max_results, recipes, strategy, recipe_urls, next_url,
                   now, last_request_time, result, api_urls, invoked, failed,
                   last_issue, fetch_outcomes,
                   search_query, origins, fetched, args, ret>>

\* lines 80-88: the next candidate, its domain, and the call of
\* _scrape_recipe_from_url if the domain is trusted
NextCandidate ==
    /\ pc = "candidate"
    /\ next_url <= Len(recipe_urls)
    /\ ~QuotaMet(recipes, max_results)
    /\ domain' = ExtractDomain(recipe_urls[next_url])
    /\ depth' = 0
    /\ soup' = None
    /\ recipe_data' = None
    /\ IF ExtractDomain(recipe_urls[next_url]) \in trusted_domains
       THEN /\ pc' = "fetch"
            /\ url' = Some(recipe_urls[next_url])
       ELSE /\ pc' = "rate_limit"
            /\ url' = None
    /\ UNCHANGED <<recipe_name, max_results, recipes, strategy, recipe_urls, next_url,
                   now, last_request_time, result, api_urls, invoked, failed,
                   last_issue, fetch_outcomes,
                   search_query, origins, fetched, args, ret>>

\* '/search?' in url and domain == 'allrecipes.com' (line 241)
IsSearchResultsPage(u, d) == u.search /\ d = <<"allrecipes.com">>

\* the exception, if any, that ends the body of _scrape_recipe_from_url at
\* this depth: the one requests raised, or the interpreter's refusal of one
\* more nested call (line 248)
ScrapeException(outcome, u, d, nesting) ==
    IF outcome.exc # "none" THEN outcome.exc
    ELSE IF /\ IsSearchResultsPage(u, d)
            /\ ParseAllrecipesSearchResults(outcome.page) # <<>>
            /\ nesting >= RecursionLimit
    THEN "RecursionError"
    ELSE "none"

\* lines 253-261: the domain's extractor, then the source fields
ExtractRecipe(u, d, page) ==
    IF ScraperFunc(d, page) = None THEN None
    ELSE Some(WithSource(ScraperFunc(d, page)[1], u, d))

\* requests.get(url) and the rest of _scrape_recipe_from_url (lines 226-265)
Fetch ==
    /\ pc = "fetch"
    /\ \E outcome \in FetchOutcomes, d \in DurationsAt(now) :
          LET u == url[1]
              e == ScrapeException(outcome, u, domain, depth)
              links == ParseAllrecipesSearchResults(outcome.page)
          IN  /\ now' = now + d
              /\ last_issue' = Some(now)
              /\ fetched' = IF depth = 0 THEN fetched \cup {u} ELSE fetched
              /\ fetch_outcomes' = fetch_outcomes \cup
                                      {IF outcome.exc = "none" THEN "2xx" ELSE "error"}
              /\ soup' = IF outcome.exc = "none" THEN Some(outcome.page) ELSE None
              /\ IF e # "none"
                 THEN IF Catches(e)
                      THEN \* line 263: return None
                           /\ recipe_data' = None
                           /\ pc' = "validate"
                           /\ UNCHANGED <<url, depth, next_url, strategy, result>>
                      ELSE IF Catches(e)
                      THEN \* line 92: continue
                           /\ recipe_data' = None
                           /\ pc' = "candidate"
                           /\ next_url' = next_url + 1
                           /\ UNCHANGED <<url, depth, strategy, result>>
                      ELSE /\ recipe_data' = None
                           /\ StrategyHandlers(e)
                           /\ UNCHANGED <<url, depth, next_url>>
                 ELSE IF IsSearchResultsPage(u, domain)
                 THEN IF links # <<>>
                      THEN \* line 248: the nested call
                           /\ url' = Some(links[1])
                           /\ depth' = depth + 1
                           /\ pc' = "fetch"
                           /\ UNCHANGED <<recipe_data, next_url, strategy, result>>
                      ELSE \* line 251: return None
                           /\ recipe_data' = None
                           /\ pc' = "validate"
                           /\ UNCHANGED <<url, depth, next_url, strategy, result>>
                 ELSE /\ recipe_data' = ExtractRecipe(u, domain, outcome.page)
                      /\ pc' = "validate"
                      /\ UNCHANGED <<url, depth, next_url, strategy, result>>
    /\ UNCHANGED <<recipe_name, max_results, recipes, recipe_urls, domain,
                   last_request_time, api_urls, invoked, failed,
                   search_query, origins, args, ret>>

\* lines 89-90 with the record put at the front of the list
ValidatePrepend ==
    /\ pc = "validate"
    /\ recipes' = IF recipe_data # None /\ ValidateRecipeData(recipe_data[1])
                  THEN <<recipe_data[1]>> \o recipes ELSE recipes
    /\ origins' = IF recipe_data # None /\ ValidateRecipeData(recipe_data[1])
                  THEN <<<<strategy, next_url>>>> \o origins ELSE origins
    /\ pc' = "rate_limit"
    /\ UNCHANGED <<recipe_name, max_results, strategy, recipe_urls, next_url, url,
                   domain, depth, soup, recipe_data, now, last_request_time, result,
                   api_urls, invoked, failed, last_issue, fetch_outcomes,
                   search_query, fetched, args, ret>>

\* lines 89-90 with a break when the candidate gave no valid record
ValidateBreakOnFailure ==
    /\ pc = "validate"
    /\ recipes' = IF recipe_data # None /\ ValidateRecipeData(recipe_data[1])
                  THEN Append(recipes, recipe_data[1]) ELSE recipes
    /\ origins' = IF recipe_data # None /\ ValidateRecipeData(recipe_data[1])
                  THEN Append(origins, <<strategy, next_url>>) ELSE origins
    /\ pc' = IF recipe_data # None /\ ValidateRecipeData(recipe_data[1])
             THEN "rate_limit" ELSE "strategy"
    /\ strategy' = IF recipe_data # None /\ ValidateRecipeData(recipe_data[1])
                   THEN strategy ELSE strategy + 1
    /\ UNCHANGED <<recipe_name, max_results, recipe_urls, next_url, url,
                   domain, depth, soup, recipe_data, now, last_request_time, result,
                   api_urls, invoked, failed, last_issue, fetch_outcomes,
                   search_query, fetched, args, ret>>

\* lines 89-90: the record is appended if there is one and it is valid
Validate ==
    /\ pc = "validate"
    /\ recipes' = IF recipe_data # None /\ ValidateRecipeData(recipe_data[1])
                  THEN Append(recipes, recipe_data[1]) ELSE recipes
    /\ origins' = IF recipe_data # None /\ ValidateRecipeData(recipe_data[1])
                  THEN Append(origins, <<strategy, next_url>>) ELSE origins
    /\ pc' = "rate_limit"
    /\ UNCHANGED <<recipe_name, max_results, strategy, recipe_urls, next_url, url,
                   domain, depth, soup, recipe_data, now, last_request_time, result,
                   api_urls, invoked, failed, last_issue, fetch_outcomes,
                   search_query, fetched, args, ret>>

\* how long _rate_limit sleeps (lines 773-776)
SleepTime(current_time, last) ==
    IF current_time - last < min_delay THEN min_delay - (current_time - last) ELSE 0

\* self._rate_limit() (lines 97, 771-777), then the next candidate
RateLimit ==
    /\ pc = "rate_limit"
    /\ now' = now + SleepTime(now, last_request_time)
    /\ last_request_time' = now'
    /\ next_url' = next_url + 1
    /\ pc' = "candidate"
    /\ url' = None /\ domain' = <<>> /\ depth' = 0 /\ soup' = None /\ recipe_data' = None
    /\ UNCHANGED <<recipe_name, max_results, recipes, strategy, recipe_urls,
                   result, api_urls, invoked, failed, last_issue, fetch_outcomes,
                   search_query, origins, fetched, args, ret>>

Next ==
    \/ SearchDuckduckgo
    \/ SearchDirectUrls
    \/ SearchAllrecipesDirect
    \/ ReturnRecipes
    \/ EndCandidates
    \/ NextCandidate
    \/ Fetch
    \/ Validate
    \/ RateLimit

Spec == Init /\ [][Next]_vars

\* every run is driven to its end
FairSpec == Spec /\ WF_vars(Next)

----------------------------------------------------------------------------
(* The functions of the pipeline applied on their own *)

\* the sequences of at most n elements of S
SeqsUpTo(S, n) == UNION { [1..k -> S] : k \in 0..n }

\* the words recipe names are made of
Words == { "1.", "Ultimate", "best", "Chicken", "Curry" }

\* a call of a function fn with the arguments a
Call(fn, a) == [fn |-> fn, a |-> a]

\* the methods that take a recipe name, called with each name of at most
\* MaxWords words; max_results is the max_results * 2 of line 78
NameCalls ==
    { Call(fn, [recipe_name |-> words, max_results |-> MaxResults * 2]) :
        fn \in { "_clean_recipe_name", "_search_recipe_urls",
                 "_search_with_direct_urls", "_search_with_allrecipes_direct" },
        words \in SeqsUpTo(Words, MaxWords) }

\* the entries of a recipeIngredient or a recipeInstructions list: a str, a
\* dict with a 'text' (DictEntry("") has none, or an empty one), anything else
LdEntries ==
    { StrEntry("Boil rice"), StrEntry("Dice onion"), StrEntry(""),
      DictEntry("Boil rice"), DictEntry(""), OtherEntry }

\* _parse_json_ld_recipe called with a Recipe dict whose two lists hold each
\* sequence of at most MaxEntries entries
LdCalls ==
    { Call("_parse_json_ld_recipe", LdDict(TypeStr("Recipe"), "LD name", es, es)) :
        es \in SeqsUpTo(LdEntries, MaxEntries) }

\* what the selectors of an extractor match in a page without JSON-LD: a name
\* element or none, a description element or none, ingredient and instruction
\* elements, some of them blank
HtmlPages ==
    { Page(<<>>, Html(name, description, ingredients, instructions), <<>>) :
        name \in { None, Some(""), Some("HTML name") },
        description \in { None, Some("summary") },
        ingredients \in { <<>>, <<"">>, <<"rice", "", "onion">> },
        instructions \in { <<>>, <<"boil", "">> } }

\* the extractor of each trusted domain called with each page
ScraperCalls ==
    { Call("scraper_func", [domain |-> d, soup |-> page]) :
        d \in trusted_domains, page \in HtmlPages }

\* RecipeWebSearch.trusted_domains (web_search.py, lines 22-33), a list of str
search_trusted_domains ==
    { "allrecipes.com", "foodnetwork.com", "bbcgoodfood.com", "seriouseats.com",
      "bonappetit.com", "food.com", "tasteofhome.com", "eatingwell.com",
      "cookinglight.com", "epicurious.com" }

\* the trusted names that are substrings of a lower-cased piece of a URL
NamesIn(piece) ==
    CASE piece = "notfood.com" -> { "food.com" }
      [] piece = "bbcgoodfood.com" -> { "bbcgoodfood.com", "food.com" }
      [] OTHER -> { piece } \cap search_trusted_domains

\* RecipeWebSearch.validate_url (web_search.py, lines 142-152):
\* any(domain in url.lower() for domain in self.trusted_domains), the URL being
\* its host labels followed by the pieces of its path and query
ValidateUrl(u) ==
    LET pieces == u.host \o u.slug
    IN  \E name \in search_trusted_domains :
            \E i \in 1..Len(pieces) : name \in NamesIn(Lower(pieces[i]))

\* the hosts of the URLs validate_url is called with: each trusted name with
\* and without 'www.', and hosts that are none of them
UrlHosts ==
    { <<name>> : name \in search_trusted_domains }
    \cup { <<"www.", name>> : name \in search_trusted_domains }
    \cup { <<"WWW.", "FoodNetwork.com">>, <<"evil.com">>, <<"notfood.com">>,
           <<"allrecipes.com", ".evil.com">>, <<"www.", "www.", "allrecipes.com">> }

\* validate_url called with each host and a path that names a trusted domain or not
UrlCalls ==
    { Call("validate_url", Url(host, FALSE, TRUE, TRUE, slug)) :
        host \in UrlHosts, slug \in { <<"x">>, <<"allrecipes.com">> } }

\* a line of a response text (recipe_agent.py): prose without brackets, a line
\* that starts with 'Recipe', a line that starts with 'Description:', prose with
\* a bracketed remark, or a well-formed JSON array of the items
Line(kind, text, items) == [kind |-> kind, text |-> text, items |-> items]
Lines ==
    { Line("prose", "Enjoy!", <<>>),
      Line("header", "Recipe 1", <<>>),
      Line("description", "tasty", <<>>),
      Line("note", "[see below]", <<>>),
      Line("array", "", <<>>),
      Line("array", "", <<"A">>),
      Line("array", "", <<"A", "B", "C">>) }

\* re.search(r'\[.*\]', response_text, re.DOTALL) (recipe_agent.py, line 253):
\* from the first '[' of the text to its last ']', None if there is no such pair
JsonMatch(response_text) ==
    LET brackets == { i \in 1..Len(response_text) :
                        response_text[i].kind \in {"note", "array"} }
        first == CHOOSE i \in brackets : \A j \in brackets : i <= j
        last == CHOOSE i \in brackets : \A j \in brackets : j <= i
    IN  IF brackets = {} THEN None ELSE Some(SubSeq(response_text, first, last))

\* the loop of _fallback_parse (recipe_agent.py, lines 276-305) over the lines
\* left, and the append of lines 307-308; a dict is a name, None if it has no
\* 'name' key, and a description
RECURSIVE FallbackLoop(_, _, _)
FallbackLoop(lines, parsed, current_recipe) ==
    LET appended == IF current_recipe # None
                    THEN Append(parsed, current_recipe[1]) ELSE parsed
    IN  IF lines = <<>> THEN appended
        ELSE IF Head(lines).kind = "header"
        THEN FallbackLoop(Tail(lines), appended,
                          Some([name |-> Some(Head(lines).text), description |-> ""]))
        ELSE IF Head(lines).kind = "description"
        THEN FallbackLoop(Tail(lines), parsed,
                          Some([name |-> IF current_recipe = None THEN None
                                         ELSE current_recipe[1].name,
                                description |-> Head(lines).text]))
        ELSE FallbackLoop(Tail(lines), parsed, current_recipe)

\* _fallback_parse (recipe_agent.py, lines 271-310)
FallbackParse(response_text, expected_count) ==
    Take(FallbackLoop(response_text, <<>>, None), expected_count)

\* _parse_recipe_response (recipe_agent.py, lines 246-269): json.loads accepts
\* the match only if it is one array and nothing else
ParseRecipeResponse(response_text, expected_count) ==
    LET json_match == JsonMatch(response_text)
    IN  IF json_match = None THEN FallbackParse(response_text, expected_count)
        ELSE IF Len(json_match[1]) = 1 /\ json_match[1][1].kind = "array"
        THEN IF Len(json_match[1][1].items) >= expected_count
             THEN Take(json_match[1][1].items, expected_count)
             ELSE json_match[1][1].items
        ELSE FallbackParse(response_text, expected_count)

\* _parse_recipe_response called with each text of at most MaxLines lines and
\* each expected_count from 0 to MaxCount
ResponseCalls ==
    { Call("_parse_recipe_response", [response_text |-> t, expected_count |-> n]) :
        t \in SeqsUpTo(Lines, MaxLines), n \in 0..MaxCount }

\* RecipeAgent(api_key=..., max_tokens=..., save_data=...) (recipe_agent.py) in
\* each environment: the key passed and OPENAI_API_KEY, each missing, empty or
\* set; max_tokens passed or not and OPENAI_MAX_TOKENS unset, a number or not
\* a number; storage_ok tells whether DataStorage(data_dir) returns
AgentCalls ==
    { Call("RecipeAgent",
           [api_key |-> k, env_api_key |-> e, max_tokens |-> t, env_max_tokens |-> et,
            save_data |-> sd, storage_ok |-> ok]) :
        k \in { None, Some(""), Some("dummy_key") },
        e \in { None, Some(""), Some("sk-env") },
        t \in { None, Some(500) },
        et \in { None, Some("2000"), Some("many") },
        sd \in BOOLEAN, ok \in BOOLEAN }

\* RecipeAgent.__init__ with the client created before the key is looked at
AgentInitClientFirst(a) ==
    LET key == IF a.api_key \notin { None, Some("") } THEN a.api_key ELSE a.env_api_key
    IN  IF key \in { None, Some("") }
        THEN [exc |-> "ValueError", created |-> <<"client">>]
        ELSE [exc |-> "none", created |-> <<"client", "web_search", "preference_matcher">>]

\* RecipeAgent.__init__ (recipe_agent.py, lines 46-66): the exception it raised,
\* "none" if it returned, and the collaborators it created, in order
AgentInit(a) ==
    LET key == IF a.api_key \notin { None, Some("") } THEN a.api_key ELSE a.env_api_key
        storage == IF a.save_data THEN <<"storage">> ELSE <<>>
    IN  IF key \in { None, Some("") }
        THEN [exc |-> "ValueError", created |-> <<>>]
        ELSE IF a.max_tokens = None /\ a.env_max_tokens = Some("many")
        THEN [exc |-> "ValueError", created |-> <<>>]
        ELSE IF a.save_data /\ ~a.storage_ok
        THEN [exc |-> "OSError", created |-> <<"client">>]
        ELSE [exc |-> "none",
              created |-> <<"client">> \o storage \o <<"web_search", "preference_matcher">>]

\* JSON-LD script blocks of a page: unparsable, not a Recipe, a Recipe, a Recipe
\* without a name, a Recipe whose mapping raises, a list holding a Recipe
LdSecondRecipe ==
    LdDict(TypeStr("Recipe"), "Second name", <<StrEntry("1 egg")>>, <<StrEntry("Fry egg")>>)
LdRecipeBadNutrition == [LdRecipe EXCEPT !.nutrition = Some(NutritionNumber)]
LdBlocks ==
    { LdInvalid, LdOrganization, LdRecipe, LdRecipeNoName, LdRecipeBadNutrition,
      LdList(<<LdOrganization, LdSecondRecipe>>) }

\* _scrape_allrecipes called with pages of at most MaxBlocks JSON-LD
\* blocks, with and without a recipe in the HTML
JsonLdPageCalls ==
    { Call("_scrape_allrecipes", [soup |-> Page(ld, html, <<>>)]) :
        ld \in SeqsUpTo(LdBlocks, MaxBlocks), html \in { HtmlNothing, HtmlRecipe } }

\* _parse_json_ld_recipe called with a Recipe dict without 'nutrition', and with
\* each 'nutrition' dict that holds a subset of the four sub-fields
NutritionCalls ==
    { Call("_parse_json_ld_recipe", [LdRecipe EXCEPT !.nutrition = n]) :
        n \in { None } \cup
              { Some(NutritionDict(f)) :
                  f \in UNION { [keys -> { "240", "9 g" }] :
                                  keys \in SUBSET { NutritionKeys[i] : i \in 1..Len(NutritionKeys) } } } }

\* the calls the model makes
Calls ==
    NameCalls
    \cup LdCalls
    \cup ScraperCalls
    \cup UrlCalls
    \cup ResponseCalls
    \cup AgentCalls
    \cup JsonLdPageCalls
    \cup NutritionCalls

\* what the run of search_and_scrape_recipe leaves alone when a function is
\* applied on its own
run_vars ==
    << recipe_name, max_results, recipes, strategy, recipe_urls, next_url, url,
       domain, depth, soup, recipe_data, now, last_request_time, result,
       api_urls, invoked, failed, last_issue, fetch_outcomes, search_query,
       origins, fetched >>

\* RecipeScraper() (lines 26-50) and one call about to be made
CallInit ==
    /\ pc = "call"
    /\ args \in { Some(c) : c \in Calls }
    /\ ret = None
    /\ recipe_name = NotAStr
    /\ max_results = 0
    /\ recipes = <<>>
    /\ strategy = 1
    /\ recipe_urls = <<>>
    /\ next_url = 1
    /\ url = None
    /\ domain = <<>>
    /\ depth = 0
    /\ soup = None
    /\ recipe_data = None
    /\ now = Epoch
    /\ last_request_time = 0
    /\ result = [kind |-> "running", exc |-> "none", value |-> <<>>]
    /\ api_urls = <<>>
    /\ invoked = {}
    /\ failed = {}
    /\ last_issue = None
    /\ fetch_outcomes = {}
    /\ search_query = None
    /\ origins = <<>>
    /\ fetched = {}

\* the call about to be made is a call of fn
Calling(fn) == pc = "call" /\ args[1].fn = fn

\* the call returns v
Returns(v) ==
    /\ ret' = Some(v)
    /\ pc' = "returned"
    /\ UNCHANGED args
    /\ UNCHANGED run_vars

\* self._clean_recipe_name(recipe_name) (lines 169-182)
CallCleanRecipeName ==
    /\ Calling("_clean_recipe_name")
    /\ Returns(CleanRecipeName(args[1].a.recipe_name))

\* self._search_recipe_urls(recipe_name, max_results) up to the query it sends
\* to the API (lines 186-190)
CallSearchRecipeUrls ==
    /\ Calling("_search_recipe_urls")
    /\ Returns(SearchQuery(args[1].a.recipe_name))

\* self._search_with_direct_urls(recipe_name, max_results) (lines 113-123)
CallSearchWithDirectUrls ==
    /\ Calling("_search_with_direct_urls")
    /\ Returns(SearchWithDirectUrls(Name(args[1].a.recipe_name), args[1].a.max_results))

\* self._search_with_allrecipes_direct(recipe_name, max_results) (lines 150-167)
CallSearchWithAllrecipesDirect ==
    /\ Calling("_search_with_allrecipes_direct")
    /\ Returns(SearchWithAllrecipesDirect(Name(args[1].a.recipe_name), args[1].a.max_results))

\* self._parse_json_ld_recipe(data) (lines 688-744)
CallParseJsonLdRecipe ==
    /\ Calling("_parse_json_ld_recipe")
    /\ Returns(ParseJsonLdRecipe(args[1].a))

\* scraper_func(soup, url) for the extractor of a trusted domain (lines 254-255)
CallScraperFunc ==
    /\ Calling("scraper_func")
    /\ Returns(ScraperFunc(args[1].a.domain, args[1].a.soup))

\* RecipeWebSearch().validate_url(url) (web_search.py, lines 142-152)
CallValidateUrl ==
    /\ Calling("validate_url")
    /\ Returns(ValidateUrl(args[1].a))

\* RecipeAgent._parse_recipe_response(response_text, expected_count)
\* (recipe_agent.py, lines 246-269)
CallParseRecipeResponse ==
    /\ Calling("_parse_recipe_response")
    /\ Returns(ParseRecipeResponse(args[1].a.response_text, args[1].a.expected_count))

\* RecipeAgent(...) (recipe_agent.py, lines 32-66)
CallRecipeAgent ==
    /\ Calling("RecipeAgent")
    /\ Returns(AgentInit(args[1].a))

\* self._scrape_allrecipes(soup, url) (lines 267-343)
CallScrapeAllrecipes ==
    /\ Calling("_scrape_allrecipes")
    /\ Returns(ScrapeAllrecipes(args[1].a.soup))

CallNext ==
    \/ CallCleanRecipeName
    \/ CallSearchRecipeUrls
    \/ CallSearchWithDirectUrls
    \/ CallSearchWithAllrecipesDirect
    \/ CallParseJsonLdRecipe
    \/ CallScraperFunc
    \/ CallValidateUrl
    \/ CallParseRecipeResponse
    \/ CallRecipeAgent
    \/ CallScrapeAllrecipes

CallSpec == CallInit /\ [][CallNext]_vars

----------------------------------------------------------------------------
(* Properties of a run of search_and_scrape_recipe *)

\* a record with a non-empty name, ingredients list and instructions list
Complete(r) == r.name # "" /\ Len(r.ingredients) > 0 /\ Len(r.instructions) > 0

\* a host lower-cased and without its leading "www."
NormalizedHost(host) ==
    LET lowered == [i \in 1..Len(host) |-> Lower(host[i])]
    IN  IF lowered # <<>> /\ Head(lowered) = "www." THEN Tail(lowered) ELSE lowered

\* no URL of the list has a host of the registry
AllOutOfRegistry(urls) ==
    \A i \in 1..Len(urls) : NormalizedHost(urls[i].host) \notin trusted_domains

\* s is an initial segment of t
IsPrefix(s, t) == Len(s) <= Len(t) /\ SubSeq(t, 1, Len(s)) = s

\* C1: every record of the accumulated list, and so of the returned list, has a
\* non-empty name, a non-empty ingredients list and a non-empty instructions list.
C1_ReturnedRecordsComplete ==
    /\ \A i \in 1..Len(recipes) : Complete(recipes[i])
    /\ result.kind = "return" =>
          \A i \in 1..Len(result.value) : Complete(result.value[i])

\* a run that returned a record
C1_Witness == result.kind = "return" /\ result.value # <<>>

\* C2: for max_results >= 0 the accumulated list never holds more than
\* max_results records, and the returned list holds at most max_results.
C2_AtMostMaxResults ==
    max_results >= 0 =>
        /\ Len(recipes) <= max_results
        /\ result.kind = "return" => Len(result.value) <= max_results

\* a run that returned exactly max_results > 0 records
C2_Witness ==
    result.kind = "return" /\ max_results > 0 /\ Len(result.value) = max_results

\* C3: the orchestrator never issues a GET for a candidate whose normalized host
\* is not in the registry; while the candidates come from an API answer naming
\* out-of-registry URLs only, no page GET is issued at all.
C3_OutOfRegistryNeverFetched ==
    /\ (pc = "fetch" /\ depth = 0) => NormalizedHost(url[1].host) \in trusted_domains
    /\ (strategy = 1 /\ AllOutOfRegistry(api_urls)) =>
          (pc # "fetch" /\ fetch_outcomes = {})

\* the first strategy is over, the API named out-of-registry URLs only, nothing was fetched
C3_Witness ==
    /\ pc = "strategy" /\ strategy = 2
    /\ api_urls # <<>> /\ AllOutOfRegistry(api_urls)
    /\ fetch_outcomes = {}

\* C4: every page GET of a run, also one for a link taken from a search-results
\* page, targets a host of the trusted registry.
C4_EveryGetTargetsTrustedHost ==
    pc = "fetch" => NormalizedHost(url[1].host) \in trusted_domains

\* C5: the run never ends by raising one of the exceptions a candidate's or a
\* strategy's failure raises; it ends by returning a list, and that list is empty
\* when no page GET was answered with a 2xx status.
C5_NeverRaisesOnCandidateFailure ==
    /\ result.kind = "raise" => result.exc \notin ExceptionClasses
    /\ pc = "done" => (result.kind = "return" \/ result.exc = "KeyboardInterrupt")
    /\ (result.kind = "return" /\ "2xx" \notin fetch_outcomes) => result.value = <<>>

\* a run whose page GETs all failed and that returned the empty list
C5_Witness ==
    result.kind = "return" /\ fetch_outcomes = {"error"} /\ result.value = <<>>

\* C6: a page GET is issued at least min_delay after the previous page GET of the run.
C6_FetchesMinDelayApart ==
    (pc = "fetch" /\ last_issue # None) => now - last_issue[1] >= min_delay

\* C7: the nesting depth of the search-results substitution is at most 1.
C7_SubstitutionDepthAtMostOne == depth <= 1

\* the records the JSON-LD blocks typed Recipe of a page stand for
StructuredRecipes(page) ==
    LET scripts == {page.ld[i] : i \in 1..Len(page.ld)}
        items == UNION {{b.items[i] : i \in 1..Len(b.items)} : b \in scripts}
    IN  {ParseJsonLdRecipe(b) : b \in {x \in scripts \cup items : IsRecipeDict(x)}}

\* C8: on every registered domain, a record accepted from a page that holds a
\* valid JSON-LD Recipe block and HTML the extractor matches carries the name,
\* ingredients and instructions of a valid structured block of that page.
C8_StructuredDataPriority ==
    ( /\ pc = "validate"
      /\ soup # None /\ recipe_data # None )
    => ( ( /\ Complete(recipe_data[1])
           /\ soup[1].html.name \notin {None, Some("")}
           /\ \E b \in StructuredRecipes(soup[1]) : Complete(b) )
         => \E b \in StructuredRecipes(soup[1]) :
               /\ Complete(b)
               /\ recipe_data[1].name = b.name
               /\ recipe_data[1].ingredients = b.ingredients
               /\ recipe_data[1].instructions = b.instructions )

\* C9: a strategy that raised, or whose request failed or was answered with a
\* malformed response, contributes no candidate; its exception does not leave
\* the run; the next strategy is invoked; the accumulated records are kept.
C9_StrategyFailureContained ==
    /\ [](/\ (pc = "candidate" /\ strategy \in failed) => recipe_urls = <<>>
          /\ result.kind = "raise" => result.exc \notin ExceptionClasses
          /\ result.kind = "return" =>
                /\ \A s \in failed : s < 3 => (s + 1) \in invoked
                /\ result.value = recipes)
    /\ [][IsPrefix(recipes, recipes')]_vars

\* a run in which the first strategy failed, the second was invoked, and a
\* record was returned
C9_Witness ==
    /\ result.kind = "return"
    /\ 1 \in failed /\ 2 \in invoked
    /\ result.value # <<>>

\* C10: a candidate's failure does not end the run: the candidate loop is left
\* only when the candidates are exhausted or the quota is met, the run returns
\* only when the quota is met or all three strategies were invoked, and a valid
\* record found after a failure is appended.
C10_FailureNeverAborts ==
    /\ (pc = "strategy" /\ strategy > 1) =>
          (QuotaMet(recipes, max_results) \/ next_url > Len(recipe_urls))
    /\ result.kind = "return" =>
          (Len(result.value) >= max_results \/ invoked = {1, 2, 3})
    /\ pc = "done" => (result.kind = "return" \/ result.exc = "KeyboardInterrupt")
    /\ (pc = "rate_limit" /\ recipe_data # None /\ Complete(recipe_data[1])) =>
          (recipes # <<>> /\ recipes[Len(recipes)] = recipe_data[1])

\* a page GET failed earlier in the run and the current candidate's valid record
\* was appended
C10_Witness ==
    /\ pc = "rate_limit"
    /\ "error" \in fetch_outcomes
    /\ recipe_data # None /\ Complete(recipe_data[1])
    /\ recipes # <<>> /\ recipes[Len(recipes)] = recipe_data[1]

\* C11: once max_results valid records are collected the run stops: from then on
\* no page is fetched or awaited and no further strategy is invoked, whichever of
\* the three strategies is running.
C11_StopsAtQuota ==
    /\ [](QuotaMet(recipes, max_results) => pc \notin {"fetch", "validate"})
    /\ [][QuotaMet(recipes, max_results) => invoked' = invoked /\ fetched' = fetched]_vars

\* the quota is met while candidates of the current strategy are still left
C11_Witness ==
    /\ pc = "candidate" /\ max_results > 0
    /\ QuotaMet(recipes, max_results)
    /\ next_url <= Len(recipe_urls)

\* the candidate o was discovered before the candidate p: by an earlier
\* strategy, or earlier in the list of the same strategy
DiscoveredBefore(o, p) == o[1] < p[1] \/ (o[1] = p[1] /\ o[2] < p[2])

\* C12: the strategies are invoked in the fixed order 1 (instant-answer API),
\* 2 (constructed search URL), 3 (direct URL guesses); within a strategy the
\* candidates are processed in the order of its list; and the records of the
\* accumulated and of the returned list appear in the order of their discovery.
C12_DiscoveryOrder ==
    /\ pc = "strategy" => invoked = 1..(strategy - 1)
    /\ pc \in {"candidate", "fetch", "validate", "rate_limit"} => invoked = 1..strategy
    /\ invoked = 1..Cardinality(invoked)
    /\ (pc = "fetch" /\ depth = 0) => url = Some(recipe_urls[next_url])
    /\ pc \in {"candidate", "fetch", "validate", "rate_limit"} =>
          \A i \in 1..Len(recipe_urls) :
              (i < next_url /\ ExtractDomain(recipe_urls[i]) \in trusted_domains)
                  => recipe_urls[i] \in fetched
    /\ Len(origins) = Len(recipes)
    /\ \A i, j \in 1..Len(origins) : i < j => DiscoveredBefore(origins[i], origins[j])
    /\ result.kind = "return" => result.value = recipes

\* a run that returned two records, found by different strategies
C12_Witness ==
    /\ result.kind = "return" /\ Len(result.value) = 2
    /\ origins[1][1] < origins[2][1]

\* C13: no URL is fetched more than once in a run: a page GET for a candidate
\* is never issued for a URL that a page GET was issued for before.
C13_NoUrlFetchedTwice ==
    (pc = "fetch" /\ depth = 0) => url[1] \notin fetched

\* C17: a run that is cut short after valid records were accumulated hands
\* those records to the caller: it ends by returning the accumulated list, not
\* by an error and not with an empty sequence.
C17_CutShortReturnsPartial ==
    (pc = "done" /\ recipes # <<>>) => (result.kind = "return" /\ result.value = recipes)

\* the candidate after the current one will be fetched
NextCandidateFetched ==
    /\ next_url < Len(recipe_urls)
    /\ ~QuotaMet(recipes, max_results)
    /\ ExtractDomain(recipe_urls[next_url + 1]) \in trusted_domains

\* C18: the limiter's state is per host: a fetch to a host is never delayed on
\* account of fetches to other hosts.  In a run whose GETs so far were all for
\* the candidates themselves, the limiter sleeps before the GET of the next
\* candidate only if a GET was issued to that candidate's host before.
C18_PerHostLimiter ==
    [][(/\ pc = "rate_limit" /\ now' > now
        /\ NextCandidateFetched
        /\ \A u \in fetched : ~u.search)
          => \E u \in fetched :
                ExtractDomain(u) = ExtractDomain(recipe_urls[next_url + 1])]_vars
\* C24 as stated: for each trusted candidate the orchestrator calls the rate
\* limiter first and the fetcher second, so the step before the GET of a candidate
\* is the limiter's; and an untrusted candidate is skipped without a fetch.
C24_LimiterThenFetcher ==
    [][/\ (pc # "fetch" /\ pc' = "fetch") => pc = "rate_limit"
       /\ (pc = "candidate" /\ pc' # "strategy"
             /\ ExtractDomain(recipe_urls[next_url]) \notin trusted_domains)
               => (pc' # "fetch" /\ fetch_outcomes' = fetch_outcomes)]_vars

\* C25 as stated: strategies are invoked in the fixed order, and only until the
\* running candidate count reaches twice the target.  The candidates produced so
\* far include recipe_urls, the list of the strategy invoked last, so a strategy
\* is invoked only while that list is shorter than 2 * max_results.
C25_ChainStopsAtTwiceTarget ==
    [][invoked' # invoked =>
          /\ invoked' = 1..strategy
          /\ Len(recipe_urls) < 2 * max_results]_vars
\* C27: every run terminates: when every network request returns, so that the
\* step the run is at is always taken, the run reaches "done", whatever the
\* search results and the pages are, a results page whose first recipe link has
\* the shape of a results URL included.
C27_EveryRunTerminates == <>(pc = "done")

\* the nested calls for results-shaped links went on until the interpreter
\* refused one more, and the run went on to validation with no record
C27_Witness ==
    /\ pc = "validate"
    /\ depth = RecursionLimit
    /\ url # None /\ url[1].search
    /\ recipe_data = None
    /\ soup # None /\ ParseAllrecipesSearchResults(soup[1]) # <<>>
\* C28 as stated: every record carries as source_url the URL of the page it was
\* extracted from, and as scraped_from the normalized host of that source_url,
\* also when the page was reached through a link of a search-results page.
C28_SourceOfEveryRecord ==
    /\ (pc = "validate" /\ recipe_data # None) => recipe_data[1].source_url = url
    /\ \A i \in 1..Len(recipes) :
          /\ recipes[i].source_url # None
          /\ recipes[i].scraped_from = Some(NormalizedHost(recipes[i].source_url[1].host))
\* C30: with max_results <= 0 the run invokes no search strategy, issues no
\* network request (no API query, no page GET), leaves the rate limiter's state
\* and the clock as they were, and returns the empty list without raising.
C30_NothingForNoQuota ==
    max_results <= 0 =>
        /\ invoked = {} /\ failed = {}
        /\ search_query = None /\ api_urls = <<>>
        /\ fetch_outcomes = {} /\ fetched = {} /\ last_issue = None
        /\ last_request_time = 0 /\ now = Epoch
        /\ result.kind # "raise"
        /\ pc = "done" => result = Return(<<>>)

\* a run with a negative max_results has returned
C30_Witness ==
    /\ max_results < 0
    /\ pc = "done"
    /\ result = Return(<<>>)

----------------------------------------------------------------------------
(* Properties of the functions applied on their own *)

\* the call that returned is a call of fn
ReturnedFrom(fn) == pc = "returned" /\ args[1].fn = fn

\* the stop words of the name cleaning, matched whatever their case
IsStopWord(w) ==
    Lower(w) \in { "recipe", "ultimate", "best", "perfect", "easy", "quick", "simple" }

\* the words without the stop words, the other words kept in order
RECURSIVE WithoutStopWords(_)
WithoutStopWords(words) ==
    IF words = <<>> THEN <<>>
    ELSE IF IsStopWord(Head(words)) THEN WithoutStopWords(Tail(words))
    ELSE <<Head(words)>> \o WithoutStopWords(Tail(words))

\* a name cleaned as the specification says: the leading ordinal stripped,
\* then every stop word removed
Cleaned(words) ==
    WithoutStopWords(IF words # <<>> /\ Head(words) \in {"1.", "2."}
                     THEN Tail(words) ELSE words)

\* C14: the name cleaning strips a leading ordinal and removes every stop word,
\* matched case-insensitively, keeping the other words in order; "1. Ultimate
\* Chicken Curry" is cleaned to "Chicken Curry"; and each of the three
\* strategies builds its query or its URLs from the cleaned name.
C14_NameCleaning ==
    LET words == args[1].a.recipe_name
    IN  /\ ReturnedFrom("_clean_recipe_name") =>
              /\ ret = Some(Cleaned(words))
              /\ words = <<"1.", "Ultimate", "Chicken", "Curry">> =>
                     ret = Some(<<"Chicken", "Curry">>)
        /\ ReturnedFrom("_search_recipe_urls") =>
              ret = Some(Cleaned(words) \o <<"recipe">>)
        /\ ReturnedFrom("_search_with_direct_urls") =>
              /\ ret[1].exc = "none" /\ Len(ret[1].value) = 1
              /\ ret[1].value[1].slug = JoinWords(Cleaned(words), "+")
        /\ ReturnedFrom("_search_with_allrecipes_direct") =>
              /\ ret[1].exc = "none" /\ Len(ret[1].value) = 3
              /\ ret[1].value[1].slug = JoinWords(LowerWords(Cleaned(words)), "-")
              /\ ret[1].value[2].slug = JoinWords(LowerWords(Cleaned(words)), "")
              /\ ret[1].value[3].slug = JoinWords(LowerWords(Cleaned(words)), "_")

\* "1. Ultimate Chicken Curry" went through the direct URL guesses
C14_Witness ==
    /\ ReturnedFrom("_search_with_allrecipes_direct")
    /\ args[1].a.recipe_name = <<"1.", "Ultimate", "Chicken", "Curry">>
    /\ ret[1].value[1].slug = <<"chicken", "-", "curry">>

\* the strings among the entries, in order
RECURSIVE StringsOf(_)
StringsOf(entries) ==
    IF entries = <<>> THEN <<>>
    ELSE IF Head(entries).form = "str"
    THEN <<Head(entries).text>> \o StringsOf(Tail(entries))
    ELSE StringsOf(Tail(entries))

\* an entry is a plain string, or an object that carries a text
HasText(e) == e.form = "str" \/ (e.form = "dict" /\ e.text # "")

\* each plain string as it is and the text of each object that carries one,
\* in order, the entries with neither skipped
RECURSIVE TextsOf(_)
TextsOf(entries) ==
    IF entries = <<>> THEN <<>>
    ELSE IF HasText(Head(entries))
    THEN <<Head(entries).text>> \o TextsOf(Tail(entries))
    ELSE TextsOf(Tail(entries))

\* the texts of the entries without the empty ones
NonEmptyTextsOf(entries) == SelectSeq(TextsOf(entries), LAMBDA t : t # "")

\* C15 as stated: recipeIngredient is mapped to ingredients as a pass-through of
\* its strings in order, and recipeInstructions to instructions in order, a
\* plain string taken as it is, the text field of an object entry taken, the
\* entries with neither skipped.
C15_InstructionsAsIs ==
    ReturnedFrom("_parse_json_ld_recipe") =>
        /\ ret[1].ingredients = StringsOf(args[1].a.recipeIngredient)
        /\ ret[1].instructions = TextsOf(args[1].a.recipeInstructions)

\* C15, amended: recipeIngredient is mapped to ingredients as a pass-through of
\* its strings in order; recipeInstructions is mapped to instructions in order,
\* a non-empty plain string taken as it is, the non-empty text field of an
\* object entry taken, and every other entry skipped, the empty plain string
\* included; [{"text": "Boil rice"}, "Dice onion"] yields ["Boil rice", "Dice onion"].
C15_NonEmptyInstructions ==
    ReturnedFrom("_parse_json_ld_recipe") =>
        /\ ret[1].ingredients = StringsOf(args[1].a.recipeIngredient)
        /\ ret[1].instructions = NonEmptyTextsOf(args[1].a.recipeInstructions)
        /\ args[1].a.recipeInstructions = <<DictEntry("Boil rice"), StrEntry("Dice onion")>>
              => ret[1].instructions = <<"Boil rice", "Dice onion">>

\* an object entry, an empty plain string and a plain string were mapped
C15_Witness ==
    /\ ReturnedFrom("_parse_json_ld_recipe")
    /\ args[1].a.recipeInstructions =
          <<DictEntry("Boil rice"), StrEntry(""), StrEntry("Dice onion")>>
    /\ ret[1].instructions = <<"Boil rice", "Dice onion">>
    /\ ret[1].ingredients = <<"", "Dice onion">>

\* the texts that are not blank, in order
NonBlank(texts) == SelectSeq(texts, LAMBDA t : t # "")

\* C16: for the HTML extractor of every trusted domain, a page with a name,
\* ingredients and instructions but no description yields a valid record whose
\* description is empty; and a miss of one field never aborts the others: each
\* of name, ingredients and instructions of the record is what its own lookup
\* found, whatever the other lookups found.
C16_PartialFieldResilience ==
    ReturnedFrom("scraper_func") =>
        LET html == args[1].a.soup.html
            named == html.name # None /\ html.name # Some("")
        IN  /\ named =>
                  /\ ret[1] # None
                  /\ ret[1][1].name = html.name[1]
                  /\ ret[1][1].ingredients = NonBlank(html.ingredients)
                  /\ ret[1][1].instructions = NonBlank(html.instructions)
            /\ (/\ named /\ html.description = None
                /\ NonBlank(html.ingredients) # <<>>
                /\ NonBlank(html.instructions) # <<>>) =>
                  /\ Complete(ret[1][1])
                  /\ ret[1][1].description \in { None, Some("") }

\* an extractor that looks for a description was given a page without one
C16_Witness ==
    /\ ReturnedFrom("scraper_func")
    /\ args[1].a.domain = <<"foodnetwork.com">>
    /\ args[1].a.soup.html.description = None
    /\ ret[1] # None
    /\ Complete(ret[1][1])
    /\ ret[1][1].description = None

\* C19: validate_url(url) is True exactly when the host of the URL is one of the
\* ten trusted domains, as the scraper's registry lookup decides it; a URL that
\* only contains a trusted name in its path or query, or as a part of another
\* host, is rejected.
C19_ValidateUrlIsRegistryLookup ==
    ReturnedFrom("validate_url") =>
        (ret[1] <=> ExtractDomain(args[1].a) \in trusted_domains)

\* C20: _parse_recipe_response(text, n) returns at most n records for every
\* text and every n >= 0; and when the text contains a well-formed JSON array
\* it returns the first min(length, n) elements of the array in their order.
C20_ParseRecipeResponse ==
    ReturnedFrom("_parse_recipe_response") =>
        LET arrays == SelectSeq(args[1].a.response_text, LAMBDA l : l.kind = "array")
        IN  /\ Len(ret[1]) <= args[1].a.expected_count
            /\ Len(arrays) = 1 => ret[1] = Take(arrays[1].items, args[1].a.expected_count)

\* no key was passed and none is in the environment
NoApiKey(a) == a.api_key \in { None, Some("") } /\ a.env_api_key \in { None, Some("") }

ScrapedAllrecipes == ReturnedFrom("_scrape_allrecipes")

\* C22 as stated: the structured result takes priority only when it has a usable
\* name: when the first JSON-LD Recipe block yields an empty name (or a record
\* that fails validation), the extractor returns what the HTML extractor of the
\* domain returns for the page, never the unusable structured record.
C22_UnusableStructuredFallsToHtml ==
    ScrapedAllrecipes =>
        LET structured == FirstJsonLd(args[1].a.soup.ld)
        IN  (structured # None /\ ~ValidateRecipeData(structured[1]))
                => /\ ret[1] = HtmlWithDescription(args[1].a.soup.html)
                   /\ ret[1] # structured

\* is a Recipe found in this block: a dict typed Recipe, or a list holding one
HoldsRecipe(block) ==
    \/ IsRecipeDict(block)
    \/ block.json = "list" /\ \E i \in 1..Len(block.items) : IsRecipeDict(block.items[i])

\* the first Recipe of a block that holds one
RecipeOf(block) ==
    IF block.json = "list"
    THEN block.items[CHOOSE i \in 1..Len(block.items) :
                        /\ IsRecipeDict(block.items[i])
                        /\ \A j \in 1..(i - 1) : ~IsRecipeDict(block.items[j])]
    ELSE block

\* a block that is skipped: it does not parse, or its mapping raises
Malformed(block) ==
    \/ block.json = "invalid"
    \/ HoldsRecipe(block) /\ ParseJsonLdRaises(RecipeOf(block))

\* C23: malformed JSON-LD blocks are skipped one by one: when every block before
\* block j is malformed or holds no Recipe, and block j holds a Recipe that maps,
\* the record of block j is returned, whatever comes after it.
C23_MalformedBlocksSkipped ==
    ScrapedAllrecipes =>
        LET ld == args[1].a.soup.ld
        IN  \A j \in 1..Len(ld) :
                (/\ HoldsRecipe(ld[j]) /\ ~Malformed(ld[j])
                 /\ \A i \in 1..(j - 1) : Malformed(ld[i]) \/ ~HoldsRecipe(ld[i]))
                    => ret[1] = Some(ParseJsonLdRecipe(RecipeOf(ld[j])))

\* a block that does not parse and a block whose mapping raises came before the
\* Recipe that was returned
C23_Witness ==
    /\ ScrapedAllrecipes
    /\ args[1].a.soup.ld = <<LdInvalid, LdRecipeBadNutrition, LdList(<<LdOrganization, LdSecondRecipe>>)>>
    /\ ret[1] # None
    /\ ret[1][1].name = "Second name"

\* the labels of calories, proteinContent, carbohydrateContent, fatContent
NutritionLabels == <<"Calories: ", "Protein: ", "Carbs: ", "Fat: ">>

\* C26: for every subset of the nutrition sub-fields calories, proteinContent,
\* carbohydrateContent, fatContent that is present, the nutrition string is the
\* present ones in that order, each as its label and its value, with ", " between
\* two of them; when none is present the record has no nutrition.
C26_NutritionString ==
    ReturnedFrom("_parse_json_ld_recipe") =>
        LET given == args[1].a.nutrition
            fields == given[1].fields
            present == { i \in 1..4 : NutritionKeys[i] \in DOMAIN fields }
            rank(i) == Cardinality({ j \in present : j <= i })
            text == ret[1].nutrition[1]
        IN  IF given = None \/ present = {}
            THEN ret[1].nutrition = None
            ELSE /\ ret[1].nutrition # None
                 /\ Len(text) = 3 * Cardinality(present) - 1
                 /\ \A i \in present :
                       /\ text[3 * rank(i) - 2] = NutritionLabels[i]
                       /\ text[3 * rank(i) - 1] = fields[NutritionKeys[i]]
                       /\ rank(i) < Cardinality(present) => text[3 * rank(i)] = ", "

\* calories and fatContent only: "Calories: 240, Fat: 9 g"
C26_Witness ==
    /\ ReturnedFrom("_parse_json_ld_recipe")
    /\ args[1].a.nutrition # None
    /\ DOMAIN args[1].a.nutrition[1].fields = { "calories", "fatContent" }
    /\ ret[1].nutrition = Some(<<"Calories: ", "240", ", ", "Fat: ", "9 g">>)

====
